---- MODULE Spec2Model ----
(***************************************************************************)
(* Model of the LGM API client (src/lgm_client.py): the CampaignStats      *)
(* record, the LGMClient operations and the upstream they talk to.         *)
(*                                                                         *)
(* Python strings that the code slices or concatenates (campaign ids and   *)
(* names) are sequences of one-character strings.  JSON values are tagged  *)
(* records.  A Python call either returns or raises: every operator that   *)
(* models a function yields a record with kind "return" or "raise" (and    *)
(* "hang" / "loop" for a call that never comes back).                      *)
(***************************************************************************)
EXTENDS Integers, Sequences, FiniteSets, TLC

VARIABLES
    api_key,        \* LGMClient.api_key, set by __init__
    json_legacy,    \* the installed requests predates 2.27: Response.json()
                    \* raises a plain ValueError for a body that is not JSON,
                    \* where later releases raise requests' JSONDecodeError
                    \* (a RequestException)
    env,            \* the caller's arguments and the upstream's behaviour
    op,             \* the operation that ran last ("init" after construction)
    outcome,        \* [kind, exc]: how it ended
    ret,            \* what it returned
    req_log,        \* the HTTP requests it issued, in order
    heap,           \* the CampaignStats instances held by the caller, by
                    \* identity (position); values are never shared
    rate_read,      \* the last derived rate read: [obj, rate, result]
    session,        \* st.session_state of the presentation layer
    message,        \* str() of the exception the last operation raised, as
                    \* a sequence of text pieces (<<>> when not modelled);
                    \* after main(), the banners the run showed
    client_calls    \* the LGMClient methods main() called in its last run

vars == <<api_key, json_legacy, env, op, outcome, ret, req_log, heap,
          rate_read, session, message, client_calls>>

----------------------------------------------------------------------------
(* Bounds                                                                  *)

MaxIds == 3         \* longest campaign_ids list of a batch call
MaxTotal == 85      \* most campaigns the upstream catalogue holds
MaxPages == 6       \* page requests followed before a loop is called endless
MaxFailAt == 2      \* latest page request the upstream may fail

----------------------------------------------------------------------------
(* Strings                                                                 *)

Str_a == <<"a">>
Str_b == <<"b">>
Str_long == <<"c", "a", "m", "p", "-", "0", "0", "0", "1", "2">>
CampaignIds == {Str_a, Str_b, Str_long}

Name_Alpha == <<"A", "l", "p", "h", "a">>
Name_Empty == <<>>

NamePrefixLen == 8
Min(a, b) == IF a < b THEN a ELSE b

\* s[:n]
Prefix(s, n) == SubSeq(s, 1, Min(n, Len(s)))

\* f"Campaign {campaign_id[:8]}..."
DefaultName(campaign_id) ==
    <<"C", "a", "m", "p", "a", "i", "g", "n", " ">>
        \o Prefix(campaign_id, NamePrefixLen) \o <<".", ".", ".">>

ErrorSuffix == <<" ", "(", "e", "r", "r", "e", "u", "r", ")">>

\* f"{campaign_name} (erreur)"
ErrorName(campaign_name) == campaign_name \o ErrorSuffix

\* sub in s
Contains(s, sub) ==
    \E i \in 0..(Len(s) - Len(sub)) : SubSeq(s, i + 1, i + Len(sub)) = sub

----------------------------------------------------------------------------
(* JSON values and Python dict / list primitives                           *)

JNum(n) == [t |-> "num", n |-> n]
JNull == [t |-> "null"]
JArr(items) == [t |-> "arr", items |-> items]
EmptyDict == [k \in {} |-> JNull]
JObj(f) == [t |-> "obj", o |-> f]

Return(v) == [kind |-> "return", exc |-> "", val |-> v]
Raise(e) == [kind |-> "raise", exc |-> e, val |-> JNull]

IsDict(v) == v.t = "obj"

\* d.get(key) or default: a present value that is falsy (0) gives way too
DictGet_or_default(d, key, default) ==
    IF key \in DOMAIN d.o /\ d.o[key] # JNum(0) THEN d.o[key] ELSE default

\* d.get(key) on a dict d: None when the key is absent, whatever the default
DictGet_no_default(d, key, default) ==
    IF key \in DOMAIN d.o THEN d.o[key] ELSE JNull

\* d.get(key, default) on a dict d
DictGet(d, key, default) == IF key \in DOMAIN d.o THEN d.o[key] ELSE default

\* x alone where the code adds y
PyAdd_left_only(x, y) ==
    IF x.t = "num" /\ y.t = "num" THEN Return(x)
    ELSE IF x.t = "arr" /\ y.t = "arr" THEN Return(x)
    ELSE Raise("TypeError")

\* x + y
PyAdd(x, y) ==
    IF x.t = "num" /\ y.t = "num" THEN Return(JNum(x.n + y.n))
    ELSE IF x.t = "arr" /\ y.t = "arr" THEN Return(JArr(x.items \o y.items))
    ELSE Raise("TypeError")

\* bool(v)
Truthy(v) ==
    CASE v.t = "num" -> v.n # 0
      [] v.t = "null" -> FALSE
      [] v.t = "arr" -> Len(v.items) # 0
      [] v.t = "obj" -> DOMAIN v.o # {}

----------------------------------------------------------------------------
(* CampaignStats                                                           *)

\* CampaignStats(campaign_id=..., campaign_name=...): counters default to 0
CampaignStats(campaign_id, campaign_name) ==
    [campaign_id |-> campaign_id,
     campaign_name |-> campaign_name,
     total_leads |-> JNum(0),
     emails_sent |-> JNum(0),
     emails_opened |-> JNum(0),
     emails_clicked |-> JNum(0),
     emails_replied |-> JNum(0),
     linkedin_sent |-> JNum(0),
     linkedin_accepted |-> JNum(0),
     linkedin_replied |-> JNum(0),
     total_replies |-> JNum(0),
     total_conversions |-> JNum(0)]

Counters == {"total_leads", "emails_sent", "emails_opened", "emails_clicked",
             "emails_replied", "linkedin_sent", "linkedin_accepted",
             "linkedin_replied", "total_replies", "total_conversions"}

\* LGMClient._parse_campaign_stats: the first dict.get on a value that is not
\* a dict raises AttributeError, in the order the code evaluates them
_parse_campaign_stats(campaign_id, campaign_name, stats) ==
    IF ~IsDict(stats) THEN Raise("AttributeError") ELSE
    LET engagement == DictGet(stats, "engagementStats", stats) IN
    IF ~IsDict(engagement) THEN Raise("AttributeError") ELSE
    LET channel == DictGet(engagement, "channel", JObj(EmptyDict)) IN
    IF ~IsDict(channel) THEN Raise("AttributeError") ELSE
    LET email_channel == DictGet(channel, "email", JObj(EmptyDict))
        linkedin_channel == DictGet(channel, "linkedin", JObj(EmptyDict)) IN
    IF ~IsDict(linkedin_channel) THEN Raise("AttributeError") ELSE
    LET linkedin_message == DictGet(linkedin_channel, "message", JObj(EmptyDict))
        linkedin_request == DictGet(linkedin_channel, "contactRequest", JObj(EmptyDict))
        relations == DictGet(engagement, "relations", JObj(EmptyDict))
        replies == DictGet(engagement, "replies", JObj(EmptyDict)) IN
    IF ~IsDict(email_channel) THEN Raise("AttributeError") ELSE
    IF ~IsDict(relations) THEN Raise("AttributeError") ELSE
    IF ~IsDict(linkedin_request) THEN Raise("AttributeError") ELSE
    LET accepted == PyAdd(DictGet(relations, "newRelations", JNum(0)),
                          DictGet(relations, "alreadyConnected", JNum(0))) IN
    IF accepted.kind = "raise" THEN accepted ELSE
    IF ~IsDict(linkedin_message) THEN Raise("AttributeError") ELSE
    IF ~IsDict(replies) THEN Raise("AttributeError") ELSE
    Return([campaign_id |-> campaign_id,
            campaign_name |-> campaign_name,
            total_leads |-> DictGet(engagement, "audienceSize", JNum(0)),
            emails_sent |-> DictGet(email_channel, "sent", JNum(0)),
            emails_opened |-> DictGet(email_channel, "opened", JNum(0)),
            emails_clicked |-> DictGet(email_channel, "clicked", JNum(0)),
            emails_replied |-> DictGet(email_channel, "replied", JNum(0)),
            linkedin_sent |-> DictGet(linkedin_request, "sent",
                                 DictGet(relations, "requestSent", JNum(0))),
            linkedin_accepted |-> accepted.val,
            linkedin_replied |-> DictGet(replies, "linkedinReplied",
                                 DictGet(linkedin_message, "replied", JNum(0))),
            total_replies |-> DictGet(replies, "replied",
                                 DictGet(replies, "replied", JNum(0))),
            total_conversions |-> DictGet(engagement, "converted", JNum(0))])

----------------------------------------------------------------------------
(* The upstream and the requests library                                   *)

RequestTimeout == 30
PageLimit == 25

\* What the upstream does with one HTTP request
RespConn == [k |-> "ConnectionError", body |-> JNull]   \* network failure
RespNoAnswer == [k |-> "NoAnswer", body |-> JNull]      \* never answers
RespHTTP == [k |-> "HTTPError", body |-> JNull]         \* non-success status
RespBadJSON == [k |-> "BadJSON", body |-> JNull]        \* 200, body not JSON
RespOk(body) == [k |-> "ok", body |-> body]             \* 200, JSON body

\* {"engagementStats": {"audienceSize": 200, "channel": {"email": {...}}, ...}}
BodyEnvelope ==
    JObj([k \in {"engagementStats"} |->
        JObj(("audienceSize" :> JNum(200)) @@ ("converted" :> JNum(10)) @@
             ("channel" :> JObj([c \in {"email"} |->
                 JObj(("sent" :> JNum(120)) @@ ("opened" :> JNum(60)) @@
                      ("clicked" :> JNum(30)) @@ ("replied" :> JNum(20)))])) @@
             ("replies" :> JObj([r \in {"replied"} |-> JNum(20)])))])
BodyEmptyObject == JObj(EmptyDict)                      \* {}
BodyArray == JArr(<<>>)                                 \* []
BodyNullEnvelope == JObj([k \in {"engagementStats"} |-> JNull])

StatsResponses ==
    {RespConn, RespNoAnswer, RespHTTP, RespBadJSON,
     RespOk(BodyEnvelope), RespOk(BodyArray), RespOk(BodyNullEnvelope)}

ProbeResponses ==
    {RespConn, RespNoAnswer, RespHTTP, RespBadJSON,
     RespOk(BodyArray), RespOk(BodyEmptyObject)}

RequestExceptions ==
    {"requests.ConnectionError", "requests.Timeout", "requests.HTTPError",
     "requests.JSONDecodeError"}

\* requests.get(url, params=..., timeout=...); response.raise_for_status();
\* response.json().  timeout is {} for a call made without one.
HttpCall(resp, timeout, legacy) ==
    CASE resp.k = "ConnectionError" -> Raise("requests.ConnectionError")
      [] resp.k = "NoAnswer" ->
            IF timeout # {} THEN Raise("requests.Timeout")
            ELSE [kind |-> "hang", exc |-> "", val |-> JNull]
      [] resp.k = "HTTPError" -> Raise("requests.HTTPError")
      [] resp.k = "BadJSON" ->
            IF legacy THEN Raise("ValueError")
            ELSE Raise("requests.JSONDecodeError")
      [] resp.k = "ok" -> Return(resp.body)

\* One logged HTTP request
Request(endpoint, key, timeout, page) ==
    [endpoint |-> endpoint, apikey |-> key, timeout |-> timeout, page |-> page]

----------------------------------------------------------------------------
(* LGMClient                                                               *)

\* Attributes an LGMClient instance resolves: the class attribute BASE_URL
\* and what __init__ assigns
ClientAttrs == {"BASE_URL", "api_key"}
HasAttr(name) == name \in ClientAttrs

\* _make_request without its except clause: requests' exceptions propagate
_make_request_unwrapped(endpoint, method, resp, legacy) ==
    IF method \notin {"GET", "POST"} THEN Raise("ValueError")
    ELSE HttpCall(resp, {RequestTimeout}, legacy)

\* LGMClient._make_request
_make_request(endpoint, method, resp, legacy) ==
    IF method \notin {"GET", "POST"} THEN Raise("ValueError")
    ELSE LET r == HttpCall(resp, {RequestTimeout}, legacy) IN
         IF r.kind = "raise" /\ r.exc \in RequestExceptions
         THEN Raise("LGMAPIError")
         ELSE r

\* a _make_request that sends the request a second time
_make_request_log_retrying(endpoint, method, key) ==
    IF method \notin {"GET", "POST"} THEN <<>>
    ELSE <<Request(endpoint, key, {RequestTimeout}, <<>>),
           Request(endpoint, key, {RequestTimeout}, <<>>)>>

\* the request _make_request issues (none for an unsupported method)
_make_request_log(endpoint, method, key) ==
    IF method \notin {"GET", "POST"} THEN <<>>
    ELSE <<Request(endpoint, key, {RequestTimeout}, <<>>)>>

\* f"{self.BASE_URL}/{endpoint}" with params={"apikey": key}, as requests
\* prepares it: the key is part of the URL's query string
BaseUrl == "https://apiv2.lagrowthmachine.com/flow"
PreparedUrl(endpoint_text, key) ==
    <<BaseUrl, "/">> \o endpoint_text \o <<"?apikey=", key>>

\* str(e) of the exception requests raises: raise_for_status names the URL
\* of the response, a refused connection the URL that was retried; a read
\* timeout and a JSON decoding error name no URL
RequestsErrorText(resp, url, legacy) ==
    CASE resp.k = "ConnectionError" ->
            <<"HTTPSConnectionPool: Max retries exceeded with url: ">> \o url
      [] resp.k = "NoAnswer" ->
            <<"HTTPSConnectionPool: Read timed out. (read timeout=30)">>
      [] resp.k = "HTTPError" -> <<"Client Error for url: ">> \o url
      [] resp.k = "BadJSON" -> <<"Expecting value: line 1 column 1 (char 0)">>
      [] OTHER -> <<>>

\* The message of what _make_request raises:
\* f"API request failed: {str(e)}" for a RequestException
_make_request_message(endpoint_text, method, key, resp, legacy) ==
    IF method \notin {"GET", "POST"} THEN <<"Unsupported method: ", method>>
    ELSE IF _make_request(endpoint_text, method, resp, legacy).exc = "LGMAPIError"
    THEN <<"API request failed: ">>
            \o RequestsErrorText(resp, PreparedUrl(endpoint_text, key), legacy)
    ELSE <<>>

StatsEndpointText(campaign_id) == <<"campaigns/">> \o campaign_id \o <<"/stats">>

\* LGMClient.get_audiences
get_audiences(resp, legacy) == _make_request(<<"audiences">>, "GET", resp, legacy)

\* LGMClient.get_members
get_members(resp, legacy) == _make_request(<<"members">>, "GET", resp, legacy)

\* LGMClient.get_campaign_stats
StatsEndpoint(campaign_id) == <<"campaigns", campaign_id, "stats">>
get_campaign_stats(campaign_id, resp, legacy) ==
    _make_request(StatsEndpoint(campaign_id), "GET", resp, legacy)

\* test_connection without its except clause
test_connection_uncaught(resp, legacy) ==
    LET r == get_audiences(resp, legacy) IN
    IF r.kind = "return" THEN Return(TRUE) ELSE r

\* LGMClient.test_connection
test_connection(resp, legacy) ==
    LET r == get_audiences(resp, legacy) IN
    IF r.kind = "return" THEN Return(TRUE)
    ELSE IF r.kind = "raise" /\ r.exc = "LGMAPIError" THEN Return(FALSE)
    ELSE r

----------------------------------------------------------------------------
(* Batch fetch                                                             *)

NoNames == [t |-> "null"]                   \* campaign_names=None
NamesDict(d) == [t |-> "dict", d |-> d]     \* a dict campaign_id -> name

\* campaign_names or {}
NamesOrEmpty(campaign_names) ==
    IF campaign_names.t = "null" \/ DOMAIN campaign_names.d = {}
    THEN [c \in {} |-> <<>>]
    ELSE campaign_names.d

\* campaign_names.get(campaign_id) or f"Campaign {campaign_id[:8]}..."
ResolveName_or_default(names, campaign_id) ==
    IF campaign_id \in DOMAIN names /\ names[campaign_id] # <<>>
    THEN names[campaign_id]
    ELSE DefaultName(campaign_id)

\* campaign_names.get(campaign_id, f"Campaign {campaign_id[:8]}...")
ResolveName(names, campaign_id) ==
    IF campaign_id \in DOMAIN names THEN names[campaign_id]
    ELSE DefaultName(campaign_id)

\* BatchEntry whose except clause re-raises instead of appending a placeholder
BatchEntry_reraise(campaign_id, names, resp, legacy) ==
    LET campaign_name == ResolveName(names, campaign_id)
        stats == get_campaign_stats(campaign_id, resp, legacy) IN
    IF stats.kind = "return"
    THEN _parse_campaign_stats(campaign_id, campaign_name, stats.val)
    ELSE stats

\* One iteration of the for loop of get_campaigns_stats_by_ids: the entry to
\* append, or the exception that leaves the loop
BatchEntry(campaign_id, names, resp, legacy) ==
    LET campaign_name == ResolveName(names, campaign_id)
        stats == get_campaign_stats(campaign_id, resp, legacy) IN
    IF stats.kind = "return"
    THEN LET campaign_stats ==
                 _parse_campaign_stats(campaign_id, campaign_name, stats.val) IN
         IF campaign_stats.kind = "raise" /\ campaign_stats.exc = "LGMAPIError"
         THEN Return(CampaignStats(campaign_id, ErrorName(campaign_name)))
         ELSE campaign_stats
    ELSE IF stats.kind = "raise" /\ stats.exc = "LGMAPIError"
    THEN Return(CampaignStats(campaign_id, ErrorName(campaign_name)))
    ELSE stats

RECURSIVE BatchLoop(_, _, _, _, _, _, _)
\* the for loop from position i on; up[id] is what the upstream does with a
\* stats request for campaign id
BatchLoop(campaign_ids, names, up, legacy, key, i, acc) ==
    IF i > Len(campaign_ids)
    THEN [kind |-> "return", exc |-> "", val |-> acc.results, reqs |-> acc.reqs]
    ELSE LET e == BatchEntry(campaign_ids[i], names, up[campaign_ids[i]], legacy)
             reqs == acc.reqs \o
                 _make_request_log(StatsEndpoint(campaign_ids[i]), "GET", key) IN
         IF e.kind = "return"
         THEN BatchLoop(campaign_ids, names, up, legacy, key, i + 1,
                        [results |-> Append(acc.results, e.val), reqs |-> reqs])
         ELSE [kind |-> e.kind, exc |-> e.exc, val |-> <<>>, reqs |-> reqs]

\* a batch that reuses the response of its first id for every id
get_campaigns_stats_by_ids_shared(campaign_ids, campaign_names, up, legacy, key) ==
    BatchLoop(campaign_ids, NamesOrEmpty(campaign_names),
              IF campaign_ids = <<>> THEN up
              ELSE [c \in DOMAIN up |-> up[campaign_ids[1]]],
              legacy, key, 1, [results |-> <<>>, reqs |-> <<>>])

\* LGMClient.get_campaigns_stats_by_ids
get_campaigns_stats_by_ids(campaign_ids, campaign_names, up, legacy, key) ==
    BatchLoop(campaign_ids, NamesOrEmpty(campaign_names), up, legacy, key,
              1, [results |-> <<>>, reqs |-> <<>>])

----------------------------------------------------------------------------
(* Campaign listing                                                        *)

\* The listing upstream: a catalogue of `total` campaigns served by
\* skip/limit ("faithful"), or the same full page whatever the skip
\* ("echo"); its failAt-th page request (0: none) is answered by failResp
ListUpstream(mode, total, failAt, failResp) ==
    [mode |-> mode, total |-> total, failAt |-> failAt, failResp |-> failResp]

Items(first, last) == [i \in 1..(last - first + 1) |-> JNum(first + i - 1)]

PageBody(items) == JObj([k \in {"campaigns"} |-> JArr(items)])

\* what the upstream does with the n-th page request of a call
ListResponse(up, skip, limit, n) ==
    IF n = up.failAt THEN up.failResp
    ELSE IF up.mode = "echo" THEN RespOk(PageBody(Items(1, limit)))
    ELSE RespOk(PageBody(Items(skip + 1, Min(skip + limit, up.total))))

\* LGMClient.get_campaigns: self.base_url is read first
get_campaigns(skip, limit, resp, legacy, key) ==
    IF ~HasAttr("base_url")
    THEN [kind |-> "raise", exc |-> "AttributeError", val |-> JNull, reqs |-> <<>>]
    ELSE LET r == HttpCall(resp, {}, legacy)
             reqs == <<Request(<<"campaigns">>, key, {}, <<skip, limit>>)>> IN
         IF r.kind # "return"
         THEN [kind |-> r.kind, exc |-> r.exc, val |-> JNull, reqs |-> reqs]
         ELSE IF ~IsDict(r.val)
         THEN [kind |-> "raise", exc |-> "AttributeError", val |-> JNull,
               reqs |-> reqs]
         ELSE [kind |-> "return", exc |-> "",
               val |-> DictGet(r.val, "campaigns", JArr(<<>>)), reqs |-> reqs]

RECURSIVE PageLoop(_, _, _, _, _, _, _)
\* the while True loop of get_all_campaigns before its n-th page request;
\* a loop still running after MaxPages requests is reported as kind "loop".
\* The "campaigns" value of a page is an array, a number or null here:
\* extend() of a number raises TypeError
PageLoop(up, legacy, key, skip, limit, n, acc) ==
    IF n > MaxPages
    THEN [kind |-> "loop", exc |-> "", val |-> acc.all_campaigns, reqs |-> acc.reqs]
    ELSE LET r == get_campaigns(skip, limit, ListResponse(up, skip, limit, n),
                                legacy, key)
             reqs == acc.reqs \o r.reqs
             campaigns == r.val IN
         IF r.kind # "return"
         THEN [kind |-> r.kind, exc |-> r.exc, val |-> <<>>, reqs |-> reqs]
         ELSE IF ~Truthy(campaigns)
         THEN [kind |-> "return", exc |-> "", val |-> acc.all_campaigns,
               reqs |-> reqs]
         ELSE IF campaigns.t # "arr"
         THEN [kind |-> "raise", exc |-> "TypeError", val |-> <<>>, reqs |-> reqs]
         ELSE LET all_campaigns == acc.all_campaigns \o campaigns.items IN
              IF Len(campaigns.items) < limit
              THEN [kind |-> "return", exc |-> "", val |-> all_campaigns,
                    reqs |-> reqs]
              ELSE PageLoop(up, legacy, key, skip + limit, limit, n + 1,
                            [all_campaigns |-> all_campaigns, reqs |-> reqs])

\* LGMClient.get_all_campaigns
get_all_campaigns(up, legacy, key) ==
    PageLoop(up, legacy, key, 0, PageLimit, 1,
             [all_campaigns |-> <<>>, reqs |-> <<>>])

----------------------------------------------------------------------------
(* The client as a state machine.  The initial state is a client fresh     *)
(* from __init__ together with a scenario: the arguments its caller uses   *)
(* and what the upstream does with each request.  Every action is one      *)
(* public operation run to its end on that scenario.                       *)

ApiKey == "key-1"

NameChoices ==
    {NoNames, NamesDict([c \in {} |-> <<>>]),
     NamesDict((Str_a :> Name_Alpha) @@ (Str_b :> Name_Empty))}

IdLists == UNION {[1..n -> CampaignIds] : n \in 0..MaxIds}

\* bodies a page request may get besides a page of campaigns
ListFailures ==
    {RespConn, RespNoAnswer, RespHTTP, RespBadJSON, RespOk(BodyArray),
     RespOk(BodyEmptyObject)}

ListUpstreams ==
    {ListUpstream(mode, total, failAt, failResp) :
        mode \in {"faithful", "echo"}, total \in 0..MaxTotal,
        failAt \in 0..MaxFailAt, failResp \in ListFailures}

\* env.stats[id]: the upstream's answer to a stats request for campaign id;
\* env.probe: its answer to an audiences or members request
NoUi == [demo_mode |-> FALSE, has_key |-> FALSE, test |-> FALSE,
         refresh |-> FALSE, fetch |-> FALSE, selected |-> <<>>]

\* env.ui: the widget values main() is rerun with
NoEnv ==
    [ids |-> <<>>, names |-> NoNames, skip |-> 0, ui |-> NoUi,
     stats |-> [c \in CampaignIds |-> RespConn], probe |-> RespConn,
     list |-> ListUpstream("faithful", 0, 0, RespConn)]
NoRet == [stats |-> <<>>, items |-> <<>>, bool |-> FALSE, body |-> JNull]

NoRead == [obj |-> 0, rate |-> "", result |-> Return(JNull)]

\* a key st.session_state does not hold
Unset == [t |-> "unset"]

\* init_session_state: campaign_stats starts as the empty list and
\* available_campaigns is not set; rendered is the set of widgets the last
\* run of main() drew
NoSession ==
    [campaign_stats |-> <<>>, available_campaigns |-> Unset,
     lgm_connected |-> FALSE, rendered |-> {}]

\* LGMClient.__init__
Constructed ==
    /\ api_key = ApiKey
    /\ json_legacy \in BOOLEAN
    /\ op = "init"
    /\ outcome = [kind |-> "none", exc |-> ""]
    /\ ret = NoRet
    /\ req_log = <<>>
    /\ rate_read = NoRead
    /\ session = NoSession
    /\ message = <<>>
    /\ client_calls = <<>>

\* a call's result with the text of the exception it raised
WithMessage(r, text) ==
    [kind |-> r.kind, exc |-> r.exc, val |-> r.val,
     msg |-> IF r.kind = "raise" THEN text ELSE <<>>]

\* str(e) of a raised exception, where the model carries it
MessageOf(r) == IF "msg" \in DOMAIN r THEN r.msg ELSE <<>>

\* an operation that consumes the key it was constructed with
Finish_key_consumed(name, r, value, reqs) ==
    /\ op' = name
    /\ outcome' = [kind |-> r.kind, exc |-> r.exc]
    /\ message' = MessageOf(r)
    /\ client_calls' = <<>>
    /\ ret' = IF r.kind = "return" THEN value ELSE NoRet
    /\ req_log' = reqs
    /\ api_key' = IF reqs = <<>> THEN api_key ELSE ""
    /\ UNCHANGED <<json_legacy, env, heap, rate_read, session>>

\* What every operation leaves behind: its name, its outcome, its return
\* value and the requests it sent; the client's attributes are only read
Finish(name, r, value, reqs) ==
    /\ op' = name
    /\ outcome' = [kind |-> r.kind, exc |-> r.exc]
    /\ message' = MessageOf(r)
    /\ client_calls' = <<>>
    /\ ret' = IF r.kind = "return" THEN value ELSE NoRet
    /\ req_log' = reqs
    /\ UNCHANGED <<api_key, json_legacy, env, heap, rate_read, session>>

TestConnection ==
    LET r == test_connection(env.probe, json_legacy) IN
    Finish("test_connection", r, [NoRet EXCEPT !.bool = r.val],
           _make_request_log(<<"audiences">>, "GET", api_key))

GetAudiences ==
    LET r == WithMessage(get_audiences(env.probe, json_legacy),
                         _make_request_message(<<"audiences">>, "GET", api_key,
                                               env.probe, json_legacy)) IN
    Finish("get_audiences", r, [NoRet EXCEPT !.body = r.val],
           _make_request_log(<<"audiences">>, "GET", api_key))

GetMembers ==
    LET r == WithMessage(get_members(env.probe, json_legacy),
                         _make_request_message(<<"members">>, "GET", api_key,
                                               env.probe, json_legacy)) IN
    Finish("get_members", r, [NoRet EXCEPT !.body = r.val],
           _make_request_log(<<"members">>, "GET", api_key))

GetCampaignStats ==
    LET r == WithMessage(
                get_campaign_stats(env.ids[1], env.stats[env.ids[1]], json_legacy),
                _make_request_message(StatsEndpointText(env.ids[1]), "GET",
                                      api_key, env.stats[env.ids[1]],
                                      json_legacy)) IN
    Finish("get_campaign_stats", r, [NoRet EXCEPT !.body = r.val],
           _make_request_log(StatsEndpoint(env.ids[1]), "GET", api_key))

GetCampaignsStatsByIds ==
    LET r == get_campaigns_stats_by_ids(env.ids, env.names, env.stats,
                                        json_legacy, api_key) IN
    Finish("get_campaigns_stats_by_ids", r, [NoRet EXCEPT !.stats = r.val],
           r.reqs)

GetCampaigns ==
    LET r == get_campaigns(env.skip, PageLimit,
                           ListResponse(env.list, env.skip, PageLimit, 1),
                           json_legacy, api_key) IN
    Finish("get_campaigns", r, [NoRet EXCEPT !.items = r.val.items], r.reqs)

GetAllCampaigns ==
    LET r == get_all_campaigns(env.list, json_legacy, api_key) IN
    Finish("get_all_campaigns", r, [NoRet EXCEPT !.items = r.val], r.reqs)

\* Single-request operations: one id, one upstream answer per endpoint
InitSingle ==
    /\ Constructed
    /\ heap = <<>>
    /\ \E campaign_id \in CampaignIds, resp \in StatsResponses,
          probe \in ProbeResponses :
           env = [NoEnv EXCEPT !.ids = <<campaign_id>>, !.probe = probe,
                               !.stats = [c \in CampaignIds |-> resp]]

NextSingle == TestConnection \/ GetAudiences \/ GetMembers \/ GetCampaignStats

SpecSingle == InitSingle /\ [][NextSingle]_vars

\* Batch fetch: a list of ids, name overrides, one upstream answer per id
InitBatch ==
    /\ Constructed
    /\ heap = <<>>
    /\ \E campaign_ids \in IdLists, campaign_names \in NameChoices,
          up \in [CampaignIds -> StatsResponses] :
           env = [NoEnv EXCEPT !.ids = campaign_ids,
                               !.names = campaign_names, !.stats = up]

NextBatch == GetCampaignsStatsByIds

SpecBatch == InitBatch /\ [][NextBatch]_vars

\* Campaign listing: a listing upstream and the skip of a single page call
InitList ==
    /\ Constructed
    /\ heap = <<>>
    /\ \E up \in ListUpstreams, skip \in {0, PageLimit} :
           env = [NoEnv EXCEPT !.list = up, !.skip = skip]

NextList == GetCampaigns \/ GetAllCampaigns

SpecList == InitList /\ [][NextList]_vars

----------------------------------------------------------------------------
(* Properties                                                              *)

ErrorMarker == <<"(", "e", "r", "r", "e", "u", "r", ")">>

IsPlaceholder(s, campaign_id) ==
    /\ s.campaign_id = campaign_id
    /\ \A c \in Counters : s[c] = JNum(0)
    /\ Contains(s.campaign_name, ErrorMarker)

\* upstream failures of the UpstreamError taxonomy
NetworkFailure(resp) == resp.k \in {"ConnectionError", "NoAnswer", "HTTPError"}
MalformedBody(resp) ==
    \/ resp.k = "BadJSON"
    \/ resp.k = "ok" /\ resp.body \in {BodyArray, BodyNullEnvelope}
UpstreamFailure(resp) == NetworkFailure(resp) \/ MalformedBody(resp)
\* failures that _make_request turns into LGMAPIError
FetchRaisesLGMAPIError(resp) ==
    NetworkFailure(resp) \/ (resp.k = "BadJSON" /\ ~json_legacy)

BatchDone == op = "get_campaigns_stats_by_ids"
ListDone == op = "get_all_campaigns"
Raised(e) == outcome = [kind |-> "raise", exc |-> e]
Returned == outcome.kind = "return"

\* C1: a batch call over N ids returns a list of exactly N CampaignStats
\* whose i-th entry carries the i-th input id, whatever the upstream does.
C1_BatchYieldsOnePerId ==
    BatchDone =>
        /\ Returned
        /\ Len(ret.stats) = Len(env.ids)
        /\ \A i \in 1..Len(env.ids) : ret.stats[i].campaign_id = env.ids[i]

\* C2: when the fetch of the id at position i raises LGMAPIError, the loop
\* goes on to the next id (its request is issued), and the entry returned at
\* position i is a placeholder: all counters 0, name with the error marker.
C2_FailedFetchGivesPlaceholder ==
    BatchDone =>
        \A i \in 1..Len(env.ids) :
            (/\ FetchRaisesLGMAPIError(env.stats[env.ids[i]])
             /\ Len(req_log) >= i)
            => /\ i < Len(env.ids) => Len(req_log) >= i + 1
               /\ Returned =>
                    /\ Len(ret.stats) = Len(env.ids)
                    /\ IsPlaceholder(ret.stats[i], env.ids[i])
               /\ ~Raised("LGMAPIError")

\* C2 witness: ids [a, b, c] with only b failing give [a, b-placeholder, c].
C2_Witness ==
    /\ BatchDone
    /\ env.ids = <<Str_a, Str_b, Str_long>>
    /\ env.stats[Str_a] = RespOk(BodyEnvelope)
    /\ env.stats[Str_b] = RespHTTP
    /\ env.stats[Str_long] = RespOk(BodyEnvelope)
    /\ Returned
    /\ Len(ret.stats) = 3
    /\ ret.stats[1].emails_sent = JNum(120)
    /\ IsPlaceholder(ret.stats[2], Str_b)
    /\ ret.stats[3].campaign_id = Str_long
    /\ ret.stats[3].emails_sent = JNum(120)

\* C3: no exception escapes a batch call for any per-campaign upstream
\* failure (network failure, timeout, bad status, unparseable or wrongly
\* shaped body); each such failure becomes a placeholder.
C3_NoFailureEscapesBatch ==
    BatchDone =>
        /\ outcome.kind # "raise"
        /\ \A i \in 1..Len(env.ids) :
               UpstreamFailure(env.stats[env.ids[i]])
               => /\ Len(ret.stats) >= i
                  /\ IsPlaceholder(ret.stats[i], env.ids[i])

\* a listing upstream that serves its catalogue and never fails
Faithful == env.list.mode = "faithful" /\ env.list.failAt = 0
\* a listing upstream that answers every page request with a full page
Echo == env.list.mode = "echo" /\ env.list.failAt = 0

CeilDiv(a, b) == (a + b - 1) \div b

\* C4: against k full pages of 25 and then a short page of m < 25 items,
\* get_all_campaigns returns 25*k + m items using k + 1 page requests.
C4_ListReturnsAllPages ==
    (ListDone /\ Faithful) =>
        /\ Returned
        /\ Len(ret.items) = env.list.total
        /\ Len(req_log) = (env.list.total \div PageLimit) + 1

C7_StatsFailureIsLGMAPIError ==
    (op = "get_campaign_stats" /\ NetworkFailure(env.stats[env.ids[1]]))
    => Raised("LGMAPIError")

C7_Witness ==
    /\ op = "get_campaign_stats"
    /\ env.stats[env.ids[1]] = RespNoAnswer
    /\ Raised("LGMAPIError")
    /\ Len(req_log) = 1

\* the first page request of a listing call fails
FirstPageFails ==
    env.list.failAt = 1 /\ UpstreamFailure(env.list.failResp)

\* C8: a failed page fetch of get_campaigns / get_all_campaigns reaches the
\* caller as LGMAPIError.
C8_PageFailureIsLGMAPIError ==
    (op \in {"get_campaigns", "get_all_campaigns"} /\ FirstPageFails)
    => Raised("LGMAPIError")

\* C9: every request is issued with a finite timeout, and a call made to an
\* upstream that never answers ends in LGMAPIError (campaign-list page
\* requests included).
C9_EveryRequestTimesOut ==
    /\ \A i \in 1..Len(req_log) : req_log[i].timeout # {}
    /\ (/\ op \in {"get_campaigns", "get_all_campaigns"}
        /\ env.list.failAt = 1
        /\ env.list.failResp = RespNoAnswer)
       => Raised("LGMAPIError")

\* C10: test_connection returns False, raising nothing, when get_audiences
\* raises LGMAPIError, and True when get_audiences returns.
C10_TestConnectionSwallows ==
    op = "test_connection" =>
        LET probe == get_audiences(env.probe, json_legacy) IN
        /\ (probe.kind = "raise" /\ probe.exc = "LGMAPIError")
               => (Returned /\ ret.bool = FALSE)
        /\ NetworkFailure(env.probe) => (Returned /\ ret.bool = FALSE)
        /\ probe.kind = "return" => (Returned /\ ret.bool = TRUE)

C10_Witness ==
    /\ op = "test_connection"
    /\ env.probe = RespHTTP
    /\ Returned
    /\ ret.bool = FALSE

----------------------------------------------------------------------------
(* Derived rates of CampaignStats                                          *)
(*                                                                         *)
(* A rate (a float rounded to 2 decimals) is modelled by its number of     *)
(* hundredths: 50.0 is 5000, 66.67 is 6667.                                *)

Abs(x) == IF x < 0 THEN -x ELSE x

\* the integer nearest to n / d (d # 0), an exact half going to the even
\* neighbour.  An exact half needs a denominator that is a multiple of 32,
\* where the float computation decides; the counters drawn below have none.
RoundDiv(n, d) ==
    LET sn == IF d < 0 THEN -n ELSE n
        sd == Abs(d)
        q == sn \div sd
        r == sn - q * sd
    IN  IF 2 * r < sd THEN q
        ELSE IF 2 * r > sd THEN q + 1
        ELSE IF q % 2 = 0 THEN q ELSE q + 1

\* v == 0
PyEqZero(v) == v.t = "num" /\ v.n = 0

\* a float with two decimals, held as its number of hundredths
Float(h) == [t |-> "float", h |-> h]

\* (numerator / denominator) * 100 cut to 2 decimals instead of rounded
Percent_truncating(numerator, denominator) ==
    IF numerator.t # "num" \/ denominator.t # "num" THEN Raise("TypeError")
    ELSE IF denominator.n = 0 THEN Raise("ZeroDivisionError")
    ELSE Return(Float((IF denominator.n < 0 THEN -1 ELSE 1) *
                      ((numerator.n * 10000) \div Abs(denominator.n))))

\* round((numerator / denominator) * 100, 2)
Percent(numerator, denominator) ==
    IF numerator.t # "num" \/ denominator.t # "num" THEN Raise("TypeError")
    ELSE IF denominator.n = 0 THEN Raise("ZeroDivisionError")
    ELSE Return(Float(RoundDiv(numerator.n * 10000, denominator.n)))

\* the early "return 0.0" of every rate
Zero == Return(Float(0))

\* CampaignStats.open_rate
open_rate(self) ==
    IF PyEqZero(self.emails_sent) THEN Zero
    ELSE Percent(self.emails_opened, self.emails_sent)

\* CampaignStats.click_rate
click_rate(self) ==
    IF PyEqZero(self.emails_sent) THEN Zero
    ELSE Percent(self.emails_clicked, self.emails_sent)

\* CampaignStats.email_reply_rate
email_reply_rate(self) ==
    IF PyEqZero(self.emails_sent) THEN Zero
    ELSE Percent(self.emails_replied, self.emails_sent)

\* linkedin_acceptance_rate without its zero guard
linkedin_acceptance_rate_unguarded(self) ==
    Percent(self.linkedin_accepted, self.linkedin_sent)

\* CampaignStats.linkedin_acceptance_rate
linkedin_acceptance_rate(self) ==
    IF PyEqZero(self.linkedin_sent) THEN Zero
    ELSE Percent(self.linkedin_accepted, self.linkedin_sent)

\* CampaignStats.linkedin_reply_rate
linkedin_reply_rate(self) ==
    IF PyEqZero(self.linkedin_sent) THEN Zero
    ELSE Percent(self.linkedin_replied, self.linkedin_sent)

\* overall_reply_rate computed from emails_replied + linkedin_replied
overall_reply_rate_summed(self) ==
    LET total_sent == PyAdd(self.emails_sent, self.linkedin_sent)
        replies == PyAdd(self.emails_replied, self.linkedin_replied) IN
    IF total_sent.kind = "raise" THEN total_sent
    ELSE IF PyEqZero(total_sent.val) THEN Zero
    ELSE IF replies.kind = "raise" THEN replies
    ELSE Percent(replies.val, total_sent.val)

\* CampaignStats.overall_reply_rate
overall_reply_rate(self) ==
    LET total_sent == PyAdd(self.emails_sent, self.linkedin_sent) IN
    IF total_sent.kind = "raise" THEN total_sent
    ELSE IF PyEqZero(total_sent.val) THEN Zero
    ELSE Percent(self.total_replies, total_sent.val)

\* conversion_rate without its zero guard
conversion_rate_unguarded(self) ==
    Percent(self.total_conversions, self.total_leads)

\* CampaignStats.conversion_rate
conversion_rate(self) ==
    IF PyEqZero(self.total_leads) THEN Zero
    ELSE Percent(self.total_conversions, self.total_leads)

RateNames ==
    {"open_rate", "click_rate", "email_reply_rate", "linkedin_acceptance_rate",
     "linkedin_reply_rate", "overall_reply_rate", "conversion_rate"}

\* getattr(self, rate) for a derived rate
ReadProperty(self, rate) ==
    CASE rate = "open_rate" -> open_rate(self)
      [] rate = "click_rate" -> click_rate(self)
      [] rate = "email_reply_rate" -> email_reply_rate(self)
      [] rate = "linkedin_acceptance_rate" -> linkedin_acceptance_rate(self)
      [] rate = "linkedin_reply_rate" -> linkedin_reply_rate(self)
      [] rate = "overall_reply_rate" -> overall_reply_rate(self)
      [] rate = "conversion_rate" -> conversion_rate(self)

\* a property that stores what it computed back into the instance
HeapAfterRead_caching(h, i, rate) ==
    LET r == ReadProperty(h[i], rate) IN
    IF r.kind = "return" /\ rate = "open_rate"
    THEN [h EXCEPT ![i].emails_opened = JNum(r.val.h)]
    ELSE h

\* The instances after a derived rate of instance i was read: the property
\* bodies assign nothing
HeapAfterRead(h, i, rate) == h

----------------------------------------------------------------------------
(* Reading the derived rates of an instance                                *)

MaxOverrides == 3

\* values a counter can hold besides the default 0: the dataclass does not
\* enforce its annotations, so whatever the JSON body carried is stored
CounterChoices == {JNull, JNum(-3), JNum(3), JNum(200)}

\* CampaignStats(**kw): the default instance with the counters in S given
WithCounters(base, S, v) ==
    [k \in DOMAIN base |-> IF k \in S THEN v[k] ELSE base[k]]

\* CampaignStats built with explicit counters
ExampleStats ==
    [CampaignStats(Str_a, Name_Alpha) EXCEPT
        !.emails_sent = JNum(200), !.emails_opened = JNum(100),
        !.emails_clicked = JNum(30), !.emails_replied = JNum(20),
        !.linkedin_sent = JNum(0), !.total_replies = JNum(20),
        !.total_leads = JNum(200), !.total_conversions = JNum(10)]

\* any caller reading a rate attribute of an instance it holds
ReadRate ==
    \E i \in DOMAIN heap, rate \in RateNames :
        /\ rate_read' = [obj |-> i, rate |-> rate,
                         result |-> ReadProperty(heap[i], rate)]
        /\ heap' = HeapAfterRead(heap, i, rate)
        /\ UNCHANGED <<api_key, json_legacy, env, op, outcome, ret, req_log,
                       session, message, client_calls>>

InitMetrics ==
    /\ Constructed
    /\ env = NoEnv
    /\ \/ heap = <<ExampleStats>>
       \/ \E S \in SUBSET Counters :
            /\ Cardinality(S) <= MaxOverrides
            /\ \E v \in [S -> CounterChoices] :
                 heap = <<WithCounters(CampaignStats(Str_a, Name_Alpha), S, v)>>

NextMetrics == ReadRate

SpecMetrics == InitMetrics /\ [][NextMetrics]_vars

----------------------------------------------------------------------------
(* Properties of the derived rates                                         *)

WasRead == rate_read.rate # ""

\* the instance whose rate was read last
Held == heap[rate_read.obj]

EmailRates == {"open_rate", "click_rate", "email_reply_rate"}
LinkedinRates == {"linkedin_acceptance_rate", "linkedin_reply_rate"}

\* the numerator / denominator pairs of the data model
Numerator(self, rate) ==
    CASE rate = "open_rate" -> self.emails_opened
      [] rate = "click_rate" -> self.emails_clicked
      [] rate = "email_reply_rate" -> self.emails_replied
      [] rate = "linkedin_acceptance_rate" -> self.linkedin_accepted
      [] rate = "linkedin_reply_rate" -> self.linkedin_replied
      [] rate = "overall_reply_rate" -> self.total_replies
      [] rate = "conversion_rate" -> self.total_conversions

Denominator(self, rate) ==
    CASE rate \in EmailRates -> Return(self.emails_sent)
      [] rate \in LinkedinRates -> Return(self.linkedin_sent)
      [] rate = "overall_reply_rate" -> PyAdd(self.emails_sent, self.linkedin_sent)
      [] rate = "conversion_rate" -> Return(self.total_leads)

DenominatorIsZero(self, rate) ==
    LET d == Denominator(self, rate) IN d.kind = "return" /\ PyEqZero(d.val)

IsNumber(v) == v.t = "num"

NonNegativeCounters(self) ==
    \A c \in Counters : IsNumber(self[c]) /\ self[c].n >= 0

IsRate(r) == r.kind = "return" /\ r.val.t = "float"

\* C14: a derived rate whose denominator is 0 evaluates to exactly 0 and raises
\* nothing, whatever its numerator holds
C14_ZeroDenominatorGivesZero ==
    (WasRead /\ DenominatorIsZero(Held, rate_read.rate))
        => rate_read.result = Zero

C14_Witness ==
    /\ rate_read.rate = "linkedin_acceptance_rate"
    /\ Held.linkedin_sent = JNum(0)
    /\ Held.linkedin_accepted = JNum(200)
    /\ rate_read.result = Zero

ExampleRates ==
    [open_rate |-> 5000, click_rate |-> 1500, email_reply_rate |-> 1000,
     linkedin_acceptance_rate |-> 0, overall_reply_rate |-> 1000,
     conversion_rate |-> 500]

\* C16: with a non-zero denominator a derived rate is the 2-decimal number
\* nearest to numerator / denominator * 100 for the pair of the data model,
\* and the worked example gives 50.0, 15.0, 10.0, 0.0, 10.0 and 5.0
C16_RateIsRoundedPercentage ==
    /\ (/\ WasRead
        /\ IsNumber(Numerator(Held, rate_read.rate))
        /\ Denominator(Held, rate_read.rate).kind = "return"
        /\ IsNumber(Denominator(Held, rate_read.rate).val)
        /\ ~DenominatorIsZero(Held, rate_read.rate))
       => /\ IsRate(rate_read.result)
          /\ LET num == Numerator(Held, rate_read.rate).n
                 den == Denominator(Held, rate_read.rate).val.n
                 h == rate_read.result.val.h
             IN  2 * Abs(h * den - num * 10000) <= Abs(den)
    /\ (WasRead /\ Held = ExampleStats /\ rate_read.rate \in DOMAIN ExampleRates)
       => rate_read.result = Return(Float(ExampleRates[rate_read.rate]))

C16_Witness ==
    /\ rate_read.rate = "open_rate"
    /\ Held.emails_sent = JNum(3)
    /\ Held.emails_opened = JNum(200)
    /\ rate_read.result = Return(Float(666667))

RepliedChoices == CounterChoices \cup {JNum(0)}

\* C17: overall_reply_rate comes from total_replies over emails_sent +
\* linkedin_sent: an instance that differs from the one read only in
\* emails_replied and linkedin_replied has the same overall_reply_rate
C17_OverallReplyRateIgnoresChannelReplies ==
    (WasRead /\ rate_read.rate = "overall_reply_rate") =>
        /\ \A a, b \in RepliedChoices :
             overall_reply_rate([Held EXCEPT !.emails_replied = a,
                                             !.linkedin_replied = b])
                = rate_read.result
        /\ (/\ IsNumber(Held.total_replies)
            /\ ~DenominatorIsZero(Held, "overall_reply_rate")
            /\ Denominator(Held, "overall_reply_rate").kind = "return")
           => /\ IsRate(rate_read.result)
              /\ 2 * Abs(rate_read.result.val.h
                           * Denominator(Held, "overall_reply_rate").val.n
                         - Held.total_replies.n * 10000)
                   <= Abs(Denominator(Held, "overall_reply_rate").val.n)

C17_Witness ==
    /\ rate_read.rate = "overall_reply_rate"
    /\ Held.emails_sent = JNum(200)
    /\ Held.emails_replied = JNum(200)
    /\ Held.total_replies = JNum(3)
    /\ rate_read.result = Return(Float(150))

\* C18: reading a rate leaves every counter of every instance unchanged, and
\* the rate read before reads the identical value again after any other reads
C18_ReadIsPure ==
    [][/\ heap' = heap
       /\ WasRead => ReadProperty(heap'[rate_read.obj], rate_read.rate)
                        = rate_read.result]_vars

C18_Witness ==
    /\ rate_read.rate = "click_rate"
    /\ Held = ExampleStats
    /\ rate_read.result = Return(Float(1500))

----------------------------------------------------------------------------
(* Parsing a statistics body                                               *)

MaxMissing == 2

\* the object the parser reads: every key it looks up is present
FullEngagement ==
    JObj(("audienceSize" :> JNum(200)) @@ ("converted" :> JNum(10)) @@
         ("channel" :> JObj(
             ("email" :> JObj(("sent" :> JNum(120)) @@ ("opened" :> JNum(60)) @@
                              ("clicked" :> JNum(30)) @@ ("replied" :> JNum(20)))) @@
             ("linkedin" :> JObj(
                 ("message" :> JObj([k \in {"replied"} |-> JNum(3)])) @@
                 ("contactRequest" :> JObj([k \in {"sent"} |-> JNum(7)])))))) @@
         ("relations" :> JObj(("requestSent" :> JNum(10)) @@
                              ("newRelations" :> JNum(3)) @@
                              ("alreadyConnected" :> JNum(1)))) @@
         ("replies" :> JObj(("replied" :> JNum(20)) @@
                            ("linkedinReplied" :> JNum(1)))))

\* the same object under the "engagementStats" key
Enveloped(engagement) == JObj([k \in {"engagementStats"} |-> engagement])

\* every key path of a JSON value
RECURSIVE PathsOf(_, _)
PathsOf(v, prefix) ==
    IF v.t # "obj" THEN {}
    ELSE UNION {{prefix \o <<k>>} \cup PathsOf(v.o[k], prefix \o <<k>>) :
                k \in DOMAIN v.o}

\* the value with the keys at the removed paths left out
RECURSIVE Without(_, _, _)
Without(v, prefix, removed) ==
    IF v.t # "obj" THEN v
    ELSE JObj([k \in {j \in DOMAIN v.o : prefix \o <<j>> \notin removed} |->
                  Without(v.o[k], prefix \o <<k>>, removed)])

\* bodies with some of the keys and sub-objects missing
PartialBodies ==
    UNION {{Without(b, <<>>, removed) :
            removed \in {R \in SUBSET PathsOf(b, <<>>) : Cardinality(R) <= MaxMissing}} :
           b \in {FullEngagement, Enveloped(FullEngagement)}}

\* 120 sent and 60 opened as flat top-level counters
BodyFlat == JObj(("emails_sent" :> JNum(120)) @@ ("emails_opened" :> JNum(60)))

\* 120 sent and 60 opened under "global" / "email" / "linkedin"
BodyPerChannel ==
    JObj(("global" :> JObj([k \in {"leads"} |-> JNum(200)])) @@
         ("email" :> JObj(("sent" :> JNum(120)) @@ ("opened" :> JNum(60)))) @@
         ("linkedin" :> JObj([k \in {"sent"} |-> JNum(0)])))

\* a counter that is null
BodyNullCounter ==
    Enveloped(JObj([k \in {"relations"} |->
        JObj([j \in {"newRelations"} |-> JNull])]))

\* a key the body does not hold
Absent == [t |-> "absent"]
Opt(key, v) == IF v = Absent THEN EmptyDict ELSE [k \in {key} |-> v]

\* a statistics object whose two LinkedIn counters each have their first
\* and second candidate key absent, 0 or 5
AliasEngagement(request_sent, relations_sent, replies_linkedin, message_replied) ==
    JObj(("channel" :> JObj([c \in {"linkedin"} |->
             JObj(("contactRequest" :> JObj(Opt("sent", request_sent))) @@
                  ("message" :> JObj(Opt("replied", message_replied))))])) @@
         ("relations" :> JObj(Opt("requestSent", relations_sent))) @@
         ("replies" :> JObj(Opt("linkedinReplied", replies_linkedin))))

AliasValues == {Absent, JNum(0), JNum(5)}

\* those objects bare, under "engagementStats", and at top level next to an
\* "engagementStats" key holding another one
AliasBodies ==
    LET objects == {AliasEngagement(a, b, c, d) : a, b, c, d \in AliasValues} IN
    objects \cup {Enveloped(e) : e \in objects}
            \cup {JObj(Enveloped(e).o @@ AliasEngagement(JNum(5), JNum(5), JNum(5), JNum(5)).o) :
                    e \in {AliasEngagement(a, a, a, a) : a \in AliasValues}}

\* a statistics object with only LinkedIn relations: requests sent, new
\* relations and contacts that were connected already
RelationsEngagement(request_sent, new_relations, already_connected) ==
    JObj([r \in {"relations"} |->
        JObj(Opt("requestSent", request_sent) @@
             Opt("newRelations", new_relations) @@
             Opt("alreadyConnected", already_connected))])

RelationsBodies ==
    {Enveloped(RelationsEngagement(s, n, c)) : s, n, c \in AliasValues}

ParseResponses ==
    {RespOk(b) : b \in PartialBodies \cup AliasBodies \cup RelationsBodies}
        \cup {RespOk(BodyFlat), RespOk(BodyPerChannel), RespOk(BodyEnvelope),
              RespOk(BodyArray), RespOk(BodyNullEnvelope),
              RespOk(BodyNullCounter), RespBadJSON}

\* The body of the try block of get_campaigns_stats_by_ids: fetch the
\* statistics of one campaign and parse them
FetchAndParse(campaign_id, campaign_name, resp, legacy) ==
    LET stats == get_campaign_stats(campaign_id, resp, legacy) IN
    IF stats.kind = "return"
    THEN _parse_campaign_stats(campaign_id, campaign_name, stats.val)
    ELSE stats

GetMetrics ==
    LET r == FetchAndParse(env.ids[1], ResolveName(env.names, env.ids[1]),
                           env.stats[env.ids[1]], json_legacy) IN
    Finish("get_metrics", r, [NoRet EXCEPT !.stats = <<r.val>>],
           _make_request_log(StatsEndpoint(env.ids[1]), "GET", api_key))

\* _parse_campaign_stats called on a decoded body
ParseCampaignStats ==
    /\ env.stats[env.ids[1]].k = "ok"
    /\ LET r == _parse_campaign_stats(env.ids[1],
                                      ResolveName(env.names, env.ids[1]),
                                      env.stats[env.ids[1]].body) IN
       Finish("_parse_campaign_stats", r, [NoRet EXCEPT !.stats = <<r.val>>], <<>>)

InitParse ==
    /\ Constructed
    /\ heap = <<>>
    /\ \E id \in CampaignIds, names \in NameChoices, resp \in ParseResponses :
         env = [NoEnv EXCEPT !.ids = <<id>>, !.names = names,
                             !.stats = [c \in CampaignIds |-> resp]]

NextParse == GetMetrics \/ ParseCampaignStats

SpecParse == InitParse /\ [][NextParse]_vars

----------------------------------------------------------------------------
(* Properties of parsing                                                   *)

ParseDone == op = "_parse_campaign_stats"
MetricsDone == op = "get_metrics"

\* what the upstream answered to the statistics request
Answer == env.stats[env.ids[1]]

\* the three historical shapes, each encoding 120 emails sent and 60 opened
SchemaVariants == {BodyFlat, BodyPerChannel, BodyEnvelope}

\* C11: each of the three schema variants encoding 120 sent / 60 opened is
\* parsed into a CampaignStats with emails_sent = 120 and open_rate = 50.0
C11_AllSchemaVariantsParsed ==
    (MetricsDone /\ Answer.k = "ok" /\ Answer.body \in SchemaVariants) =>
        /\ Returned
        /\ ret.stats[1].emails_sent = JNum(120)
        /\ open_rate(ret.stats[1]) = Return(Float(5000))

RECURSIVE Present(_, _)
\* the key path leads to a value
Present(v, path) ==
    IF path = <<>> THEN TRUE
    ELSE /\ v.t = "obj"
         /\ Head(path) \in DOMAIN v.o
         /\ Present(v.o[Head(path)], Tail(path))

\* the object that holds the statistics: under "engagementStats" if present
Engagement(body) ==
    IF "engagementStats" \in DOMAIN body.o THEN body.o["engagementStats"] ELSE body

\* the key paths that can supply each counter
Aliases ==
    [total_leads |-> {<<"audienceSize">>},
     emails_sent |-> {<<"channel", "email", "sent">>},
     emails_opened |-> {<<"channel", "email", "opened">>},
     emails_clicked |-> {<<"channel", "email", "clicked">>},
     emails_replied |-> {<<"channel", "email", "replied">>},
     linkedin_sent |-> {<<"channel", "linkedin", "contactRequest", "sent">>,
                        <<"relations", "requestSent">>},
     linkedin_accepted |-> {<<"relations", "newRelations">>,
                            <<"relations", "alreadyConnected">>},
     linkedin_replied |-> {<<"replies", "linkedinReplied">>,
                           <<"channel", "linkedin", "message", "replied">>},
     total_replies |-> {<<"replies", "replied">>},
     total_conversions |-> {<<"converted">>}]

\* C12: for a response object with some or all of the expected keys and
\* sub-objects missing, _parse_campaign_stats returns, and every counter none
\* of whose keys is present is 0 (so the empty object gives all zeros)
C12_ParseToleratesAbsence ==
    (ParseDone /\ Answer.body \in PartialBodies) =>
        /\ Returned
        /\ \A c \in Counters :
             (\A path \in Aliases[c] : ~Present(Engagement(Answer.body), path))
                => ret.stats[1][c] = JNum(0)

C12_Witness ==
    /\ ParseDone
    /\ Answer.body \in PartialBodies
    /\ "channel" \notin DOMAIN Engagement(Answer.body).o
    /\ Returned
    /\ ret.stats[1].total_leads = JNum(200)
    /\ ret.stats[1].emails_sent = JNum(0)

\* C13: a success status with a body that is not JSON, or JSON that is not an
\* object of the expected nesting, makes get_metrics raise LGMAPIError
C13_MalformedBodyIsLGMAPIError ==
    (MetricsDone /\ MalformedBody(Answer)) => Raised("LGMAPIError")

----------------------------------------------------------------------------
(* The presentation layer holding the instances a fetch returned           *)
(*                                                                         *)
(* heap holds every CampaignStats instance constructed so far, by          *)
(* identity; session.campaign_stats is the list of instances (indices into *)
(* heap) that st.session_state.campaign_stats refers to.                   *)

MaxHeap == 4

\* what the upstream may answer to the statistics requests of one fetch
AppResponses ==
    {RespOk(BodyEnvelope), RespOk(BodyEmptyObject), RespHTTP, RespOk(BodyArray)}

\* a fetch that writes the new counters into the instances the session holds
Allocate_in_place(h, old_refs, stats_list) ==
    IF Len(old_refs) = Len(stats_list)
    THEN [heap |-> [i \in DOMAIN h |->
                       IF \E j \in DOMAIN old_refs : old_refs[j] = i
                       THEN stats_list[CHOOSE j \in DOMAIN old_refs : old_refs[j] = i]
                       ELSE h[i]],
          refs |-> old_refs]
    ELSE [heap |-> h \o stats_list,
          refs |-> [j \in DOMAIN stats_list |-> Len(h) + j]]

\* results.append(CampaignStats(...)) for every entry of a fetch, and the
\* assignment of the new list: each entry is a newly constructed instance
Allocate(h, old_refs, stats_list) ==
    [heap |-> h \o stats_list,
     refs |-> [j \in DOMAIN stats_list |-> Len(h) + j]]

\* the instances a list of references denotes
Deref(h, refs) == [j \in DOMAIN refs |-> h[refs[j]]]

\* app.stats_to_dataframe: one row per instance, reading every field and rate
stats_to_dataframe(stats_list) ==
    IF \E j \in DOMAIN stats_list, rate \in RateNames :
          ReadProperty(stats_list[j], rate).kind = "raise"
    THEN Raise("TypeError")
    ELSE Return([j \in DOMAIN stats_list |->
                    [Campaign |-> stats_list[j].campaign_name,
                     ID |-> stats_list[j].campaign_id,
                     Leads |-> stats_list[j].total_leads,
                     Rates |-> [rate \in RateNames |->
                                   ReadProperty(stats_list[j], rate).val]]])

\* the for loop of app.render_ai_analysis: it reads the rates of each
\* instance and then stat.templates, an attribute CampaignStats does not have
render_ai_analysis(stats_list) ==
    IF stats_list = <<>> THEN Return(<<>>)
    ELSE IF \E rate \in RateNames \ {"click_rate"} :
               ReadProperty(stats_list[1], rate).kind = "raise"
    THEN Raise("TypeError")
    ELSE Raise("AttributeError")

\* a fetch that clears the stored statistics when the batch call fails
StoreStats_clearing(sess, r, refs) ==
    [sess EXCEPT !.campaign_stats = IF r.kind = "return" THEN refs ELSE <<>>]

\* st.session_state.campaign_stats = stats_list, the statement after the
\* batch call inside the try: it runs only when the call returned
StoreStats(sess, r, refs) ==
    IF r.kind = "return" THEN [sess EXCEPT !.campaign_stats = refs] ELSE sess

\* main(), "Fetch Statistics" pressed: the batch call, its result stored in
\* st.session_state.campaign_stats; LGMAPIError is reported and swallowed
FetchStatistics ==
    \E resp \in AppResponses :
        LET up == [c \in CampaignIds |-> resp]
            r == get_campaigns_stats_by_ids(env.ids, env.names, up,
                                            json_legacy, api_key) IN
        /\ Len(heap) + Len(env.ids) <= MaxHeap
        /\ env' = [env EXCEPT !.stats = up]
        /\ op' = "fetch_statistics"
        /\ outcome' = IF r.kind = "raise" /\ r.exc = "LGMAPIError"
                      THEN [kind |-> "return", exc |-> ""]
                      ELSE [kind |-> r.kind, exc |-> r.exc]
        /\ ret' = NoRet
        /\ req_log' = r.reqs
        /\ LET a == IF r.kind = "return"
                     THEN Allocate(heap, session.campaign_stats, r.val)
                     ELSE [heap |-> heap, refs |-> session.campaign_stats] IN
           /\ heap' = a.heap
           /\ session' = StoreStats(session, r, a.refs)
        /\ message' = <<>>
        /\ client_calls' = <<"get_campaigns_stats_by_ids">>
        /\ UNCHANGED <<api_key, json_legacy, rate_read>>

StatsToDataframe ==
    LET r == stats_to_dataframe(Deref(heap, session.campaign_stats)) IN
    /\ session.campaign_stats # <<>>
    /\ Finish("stats_to_dataframe", r, [NoRet EXCEPT !.items = r.val], <<>>)

RenderAiAnalysis ==
    LET r == render_ai_analysis(Deref(heap, session.campaign_stats)) IN
    /\ session.campaign_stats # <<>>
    /\ Finish("render_ai_analysis", r, NoRet, <<>>)

\* main() rerun because the last selected campaign was taken out of the
\* multiselect, Fetch Statistics not pressed: the stored statistics are shown
\* again, or "Click to load data"
Reselect ==
    \E selected \in {SubSeq(env.ids, 1, Len(env.ids) - 1)} \ {<<>>} :
        LET stats_list == Deref(heap, session.campaign_stats)
            df == stats_to_dataframe(stats_list)
            r == IF stats_list = <<>> THEN Return(JNull)
                 ELSE IF df.kind # "return" THEN df
                 ELSE render_ai_analysis(stats_list) IN
        /\ env' = [env EXCEPT !.ids = selected]
        /\ op' = "reselect"
        /\ outcome' = [kind |-> r.kind, exc |-> r.exc]
        /\ ret' = NoRet
        /\ req_log' = <<>>
        /\ message' = <<>>
        /\ client_calls' = <<>>
        /\ UNCHANGED <<api_key, json_legacy, heap, rate_read, session>>

InitApp ==
    /\ Constructed
    /\ heap = <<>>
    /\ \E campaign_ids \in IdLists \ {<<>>}, campaign_names \in NameChoices :
           env = [NoEnv EXCEPT !.ids = campaign_ids, !.names = campaign_names]

NextApp ==
    \/ FetchStatistics
    \/ StatsToDataframe
    \/ RenderAiAnalysis
    \/ TestConnection
    \/ GetAllCampaigns
    \/ Reselect

SpecApp == InitApp /\ [][NextApp]_vars

\* C19: no operation changes a field of an instance constructed before it,
\* and a fetch that returns makes the session refer to instances that did
\* not exist before the fetch
C19_InstancesNeverChange ==
    [][/\ \A i \in DOMAIN heap : i \in DOMAIN heap' /\ heap'[i] = heap[i]
       /\ (op' = "fetch_statistics" /\ session' # session) =>
             \A j \in DOMAIN session'.campaign_stats :
                 session'.campaign_stats[j] \notin DOMAIN heap]_vars

\* a second fetch returned other counters than the first, whose instance is
\* still on the heap
C19_Witness ==
    /\ op = "fetch_statistics"
    /\ Len(heap) >= 2
    /\ session.campaign_stats # <<>>
    /\ session.campaign_stats[1] > 1
    /\ heap[1].campaign_id = heap[session.campaign_stats[1]].campaign_id
    /\ heap[1].emails_sent = JNum(120)
    /\ heap[session.campaign_stats[1]].emails_sent = JNum(0)

----------------------------------------------------------------------------
(* One client used for any sequence of calls                               *)

\* the upstream's behaviour towards the page requests
ClientListUpstreams ==
    {ListUpstream(mode, total, 0, RespHTTP) :
        mode \in {"faithful", "echo"}, total \in {0, PageLimit + 1}}

InitClient ==
    /\ Constructed
    /\ heap = <<>>
    /\ \E campaign_ids \in IdLists \ {<<>>},
          resp \in StatsResponses \cup ProbeResponses,
          up \in ClientListUpstreams :
           env = [NoEnv EXCEPT !.ids = campaign_ids, !.probe = resp,
                               !.stats = [c \in CampaignIds |-> resp],
                               !.list = up]

NextClient ==
    \/ TestConnection
    \/ GetAudiences
    \/ GetMembers
    \/ GetCampaignStats
    \/ GetCampaignsStatsByIds
    \/ GetCampaigns
    \/ GetAllCampaigns

SpecClient == InitClient /\ [][NextClient]_vars

----------------------------------------------------------------------------
(* main() of the presentation layer: one run of the script from top to     *)
(* bottom, started by the first page load or by a widget the user touched. *)
(* The widget values of the run are its input; a button can be pressed and *)
(* a box ticked only if the previous run drew it.                          *)

\* what a run of main() leaves behind
MainResult(kind, exc, sess, h, calls, reqs, shown, rendered) ==
    [kind |-> kind, exc |-> exc, heap |-> h, calls |-> calls, reqs |-> reqs,
     shown |-> shown, session |-> [sess EXCEPT !.rendered = rendered]]

\* the sidebar draws the Test button first and the demo checkbox last
SidebarWidgets == {"test", "demo"}

\* a run of main() that reloads the campaign list every time
LoadNeeded_always(sess, ui) == TRUE

\* main(): "available_campaigns" not in st.session_state or st.button(Refresh)
LoadNeeded(sess, ui) == sess.available_campaigns = Unset \/ ui.refresh

\* main(): the Refresh button is drawn only when the first operand of the
\* "or" is false
RefreshDrawn(sess) ==
    IF sess.available_campaigns = Unset THEN {} ELSE {"refresh"}

\* render_sidebar(): the Test button calls test_connection() on a client of
\* its own when a key is typed in, and stores the answer in lgm_connected
render_sidebar(sess, ui, probe, legacy, key) ==
    IF ~(ui.test /\ ui.has_key)
    THEN [kind |-> "return", exc |-> "", session |-> sess, calls |-> <<>>,
          reqs |-> <<>>]
    ELSE LET r == test_connection(probe, legacy)
             reqs == _make_request_log(<<"audiences">>, "GET", key) IN
         [kind |-> r.kind, exc |-> r.exc,
          session |-> IF r.kind = "return"
                      THEN [sess EXCEPT !.lgm_connected = r.val]
                      ELSE sess,
          calls |-> <<"test_connection">>, reqs |-> reqs]

\* a call main() did not make in this run
Skipped == [kind |-> "skip", exc |-> "", val |-> <<>>, reqs |-> <<>>]

\* main() from "if not st.session_state.campaign_stats" to its end: the
\* hint to load data, or the dataframe and the tabs over the stored list
main_rendered(sess, h, calls, reqs, shown, drawn) ==
    LET stats_list == Deref(h, sess.campaign_stats)
        df == stats_to_dataframe(stats_list)
        tab == render_ai_analysis(stats_list) IN
    IF stats_list = <<>>
    THEN MainResult("return", "", sess, h, calls, reqs,
                    shown \o <<"Click to load data">>, drawn)
    ELSE IF df.kind # "return"
    THEN MainResult(df.kind, df.exc, sess, h, calls, reqs, shown, drawn)
    ELSE MainResult(tab.kind, tab.exc, sess, h, calls, reqs, shown, drawn)

\* main(), the body of "if st.button(Fetch Statistics)" once the batch call
\* has ended with r: a returned list is stored, LGMAPIError is shown and
\* ends the run, anything else leaves main()
main_fetched(sess, h, r, calls, reqs, shown, drawn) ==
    IF r.kind = "return"
    THEN main_rendered(
             StoreStats(sess, r, Allocate(h, sess.campaign_stats, r.val).refs),
             Allocate(h, sess.campaign_stats, r.val).heap,
             calls, reqs \o r.reqs, shown, drawn)
    ELSE IF r.kind = "raise" /\ r.exc = "LGMAPIError"
    THEN MainResult("return", "", StoreStats(sess, r, <<>>), h, calls,
                    reqs \o r.reqs, shown \o <<"LGM API Error">>, drawn)
    ELSE MainResult(r.kind, r.exc, StoreStats(sess, r, <<>>), h, calls,
                    reqs \o r.reqs, shown, drawn)

\* main() from "Filters" on, reached with a non-empty campaign list: the
\* selection and the Fetch Statistics button.  A listed item stands for the
\* campaign whose id is selected.
main_selected(sess, h, ui, e, legacy, key, calls, reqs, shown, drawn) ==
    IF ui.selected = <<>>
    THEN MainResult("return", "", sess, h, calls, reqs,
                    shown \o <<"Select at least one campaign">>,
                    drawn \cup {"multiselect"})
    ELSE IF ~ui.fetch
    THEN main_rendered(sess, h, calls, reqs, shown,
                       drawn \cup {"multiselect", "fetch"})
    ELSE main_fetched(sess, h,
                      get_campaigns_stats_by_ids(ui.selected, e.names, e.stats,
                                                 legacy, key),
                      calls \o <<"get_campaigns_stats_by_ids">>, reqs, shown,
                      drawn \cup {"multiselect", "fetch"})

\* main(), the campaign list section once the load has ended with r (Skipped
\* when no load was needed): a returned list is stored, any exception is
\* shown and the empty list stored; an empty list ends the run
main_loaded(side, h, ui, e, legacy, key, r) ==
    LET available == IF r.kind = "return" THEN JArr(r.val)
                     ELSE IF r.kind = "raise" THEN JArr(<<>>)
                     ELSE side.session.available_campaigns
        sess2 == [side.session EXCEPT !.available_campaigns = available]
        calls == IF r.kind = "skip" THEN side.calls
                 ELSE side.calls \o <<"get_all_campaigns">>
        reqs == side.reqs \o r.reqs
        shown == IF r.kind = "raise" THEN <<"Error loading campaigns">>
                 ELSE <<>>
        drawn == SidebarWidgets \cup RefreshDrawn(side.session) IN
    IF r.kind \in {"hang", "loop"}
    THEN MainResult(r.kind, "", sess2, h, calls, reqs, shown, drawn)
    ELSE IF available.items = <<>>
    THEN MainResult("return", "", sess2, h, calls, reqs,
                    shown \o <<"No campaigns found">>, drawn)
    ELSE main_selected(sess2, h, ui, e, legacy, key, calls, reqs, shown,
                       drawn)

\* main() after render_sidebar() has ended with side: demo mode builds
\* CampaignStats(templates=...), which __init__ rejects; without a key the
\* run ends; otherwise the campaign list is loaded when needed
main_sidebar_done(side, h, ui, e, legacy, key) ==
    IF side.kind # "return"
    THEN MainResult(side.kind, side.exc, side.session, h, side.calls,
                    side.reqs, <<>>, {"test"})
    ELSE IF ui.demo_mode
    THEN MainResult("raise", "TypeError", side.session, h, side.calls,
                    side.reqs, <<"Demo mode activated">>, SidebarWidgets)
    ELSE IF ~ui.has_key
    THEN MainResult("return", "", side.session, h, side.calls, side.reqs,
                    <<"Enter your LGM API key">>, SidebarWidgets)
    ELSE main_loaded(side, h, ui, e, legacy, key,
                     IF LoadNeeded(side.session, ui)
                     THEN get_all_campaigns(e.list, legacy, key)
                     ELSE Skipped)

\* main(): init_session_state() keeps what the session holds, then the
\* sidebar is drawn
main(sess, h, ui, e, legacy, key) ==
    main_sidebar_done(render_sidebar(sess, ui, e.probe, legacy, key), h, ui,
                      e, legacy, key)

\* the widget values a run can start with, given what the last run drew
UiChoices(sess) ==
    {ui \in [demo_mode : BOOLEAN, has_key : BOOLEAN, test : BOOLEAN,
             refresh : BOOLEAN, fetch : BOOLEAN,
             selected : IdLists] :
        /\ ui.demo_mode => "demo" \in sess.rendered
        /\ ui.test => "test" \in sess.rendered
        /\ ui.refresh => "refresh" \in sess.rendered
        /\ ui.fetch => "fetch" \in sess.rendered
        /\ ui.selected # <<>> => "multiselect" \in sess.rendered}

\* one run of main()
Main ==
    \E ui \in UiChoices(session) :
        LET m == main(session, heap, ui, env, json_legacy, api_key) IN
        /\ Len(m.heap) <= MaxHeap
        /\ env' = [env EXCEPT !.ui = ui]
        /\ op' = "main"
        /\ outcome' = [kind |-> m.kind, exc |-> m.exc]
        /\ ret' = NoRet
        /\ req_log' = m.reqs
        /\ heap' = m.heap
        /\ session' = m.session
        /\ message' = m.shown
        /\ client_calls' = m.calls
        /\ UNCHANGED <<api_key, json_legacy, rate_read>>

\* the page is opened with nothing in the session
InitMain ==
    /\ Constructed
    /\ heap = <<>>
    /\ \E probe \in ProbeResponses, up \in ClientListUpstreams :
           env = [NoEnv EXCEPT !.probe = probe, !.list = up]

NextMain == Main

SpecMain == InitMain /\ [][NextMain]_vars

\* C20: no operation, returning or raising, changes the client's api_key, and
\* an operation called again with the same arguments against the same
\* upstream behaviour has the same outcome, return value and requests,
\* whatever was called in between
C20_ClientIsStateless ==
    [][/\ api_key' = api_key
       /\ (op' = op /\ env' = env) =>
             (outcome' = outcome /\ ret' = ret /\ req_log' = req_log)]_vars

C20_Witness ==
    /\ op = "get_campaigns_stats_by_ids"
    /\ Returned
    /\ Len(req_log) >= 2
    /\ \A i \in DOMAIN req_log : req_log[i].apikey = ApiKey
    /\ api_key = ApiKey

----------------------------------------------------------------------------
(* Properties of messages and requests                                     *)

OtherApiKey == "key-2"

\* the message the operation that ran last would carry had the client been
\* constructed with another key
MessageUnderKey(key) ==
    CASE op = "get_audiences" ->
            _make_request_message(<<"audiences">>, "GET", key, env.probe,
                                  json_legacy)
      [] op = "get_members" ->
            _make_request_message(<<"members">>, "GET", key, env.probe,
                                  json_legacy)
      [] op = "get_campaign_stats" ->
            _make_request_message(StatsEndpointText(env.ids[1]), "GET", key,
                                  Answer, json_legacy)
      [] OTHER -> <<>>

\* C21: the message of an LGMAPIError never holds the API key: it is the
\* same whatever key the client was constructed with
C21_MessageHidesKey ==
    (op \in {"get_audiences", "get_members", "get_campaign_stats"}
        /\ Raised("LGMAPIError")) =>
        /\ ~Contains(message, <<api_key>>)
        /\ MessageUnderKey(OtherApiKey) = message

\* C22: one call for the statistics of a campaign issues exactly one request,
\* to the stats endpoint of that id and carrying the API key, whether it
\* succeeds or fails
C22_OneAuthenticatedRequestPerCall ==
    (op = "get_campaign_stats") =>
        /\ Len(req_log) = 1
        /\ req_log[1].endpoint = StatsEndpoint(env.ids[1])
        /\ req_log[1].apikey = api_key

C22_Witness ==
    /\ op = "get_campaign_stats"
    /\ Answer = RespHTTP
    /\ Raised("LGMAPIError")
    /\ req_log = <<Request(StatsEndpoint(env.ids[1]), ApiKey,
                           {RequestTimeout}, <<>>)>>

\* C23: get_all_campaigns asks for pages of 25 at skips 0, 25, 50, ... in
\* increasing order, goes on only after a full page, stops at the first short
\* or empty page and returns all items of the pages in request order
C23_PagesInOrderAndConcatenated ==
    (ListDone /\ Faithful) =>
        /\ Returned
        /\ Len(req_log) = (env.list.total \div PageLimit) + 1
        /\ \A n \in DOMAIN req_log :
             req_log[n].page = <<(n - 1) * PageLimit, PageLimit>>
        /\ ret.items = Items(1, env.list.total)

----------------------------------------------------------------------------
(* Candidate keys                                                          *)

RECURSIVE ValueAt(_, _)
\* the value a present key path leads to
ValueAt(v, path) ==
    IF path = <<>> THEN v ELSE ValueAt(v.o[Head(path)], Tail(path))

\* the first candidate path that is present gives the value, else 0
FirstPresent(e, first, second) ==
    IF Present(e, first) THEN ValueAt(e, first)
    ELSE IF Present(e, second) THEN ValueAt(e, second)
    ELSE JNum(0)

\* C24: linkedin_sent is channel.linkedin.contactRequest.sent if that key is
\* present (even holding 0), else relations.requestSent, else 0;
\* linkedin_replied is replies.linkedinReplied if present, else
\* channel.linkedin.message.replied, else 0; both are read in engagementStats
\* if the body has that key and in the top-level object otherwise
C24_FirstPresentCandidateWins ==
    (ParseDone /\ Answer.body \in AliasBodies) =>
        /\ Returned
        /\ ret.stats[1].linkedin_sent =
              FirstPresent(Engagement(Answer.body),
                           <<"channel", "linkedin", "contactRequest", "sent">>,
                           <<"relations", "requestSent">>)
        /\ ret.stats[1].linkedin_replied =
              FirstPresent(Engagement(Answer.body),
                           <<"replies", "linkedinReplied">>,
                           <<"channel", "linkedin", "message", "replied">>)

\* the first candidate holds 0 and the second 5: the counter is 0
C24_Witness ==
    /\ ParseDone
    /\ Answer.body = AliasEngagement(JNum(0), JNum(5), JNum(0), JNum(5))
    /\ ret.stats[1].linkedin_sent = JNum(0)
    /\ ret.stats[1].linkedin_replied = JNum(0)

----------------------------------------------------------------------------
(* Properties of the batch, item by item                                   *)

\* the name the batch resolves for the id at position i
ResolvedName(i) == ResolveName(NamesOrEmpty(env.names), env.ids[i])

\* what parsing the response to the id at position i gives
OwnParse(i) ==
    _parse_campaign_stats(env.ids[i], ResolvedName(i), env.stats[env.ids[i]].body)

\* the fetch and the parse of the id at position i succeed
FetchSucceeds(i) ==
    env.stats[env.ids[i]].k = "ok" /\ OwnParse(i).kind = "return"

\* C25: in the list a batch returns, the entry of an id whose fetch succeeds
\* is the parse of that id's own response under that id's resolved name,
\* whatever the other ids of the batch did and wherever the id stands
C25_EntryDependsOnOwnResponseOnly ==
    (BatchDone /\ Returned) =>
        \A i \in 1..Len(env.ids) :
            FetchSucceeds(i) =>
                /\ Len(ret.stats) >= i
                /\ ret.stats[i] = OwnParse(i).val

\* a failing id first, a succeeding one second
C25_Witness ==
    /\ BatchDone
    /\ Returned
    /\ env.ids = <<Str_b, Str_a>>
    /\ env.stats[Str_b] = RespConn
    /\ env.stats[Str_a] = RespOk(BodyEnvelope)
    /\ IsPlaceholder(ret.stats[1], Str_b)
    /\ ret.stats[2].campaign_id = Str_a
    /\ ret.stats[2].emails_sent = JNum(120)

\* C26: a batch over N ids issues exactly N requests, the k-th to the stats
\* endpoint of the k-th id, none repeated after a failure, and the entry of
\* every id is appended before the next request goes out
C26_OneRequestPerIdInOrder ==
    BatchDone =>
        /\ Len(req_log) = Len(env.ids)
        /\ \A k \in DOMAIN req_log :
             req_log[k].endpoint = StatsEndpoint(env.ids[k])
        /\ Returned /\ Len(ret.stats) = Len(env.ids)

\* the name the data model gives the id at position i: the override if
\* campaign_names holds one, else "Campaign " + the first 8 characters + "..."
ExpectedName(i) ==
    LET id == env.ids[i] IN
    IF env.names.t = "dict" /\ id \in DOMAIN env.names.d
    THEN env.names.d[id]
    ELSE <<"C", "a", "m", "p", "a", "i", "g", "n", " ">>
            \o [j \in 1..(IF Len(id) < 8 THEN Len(id) ELSE 8) |-> id[j]]
            \o <<".", ".", ".">>

\* campaign_names=None for an empty mapping and the reverse
NoNamesSwapped ==
    IF env.names = NoNames THEN NamesDict([c \in {} |-> <<>>]) ELSE NoNames

\* C27: every entry of a returned batch is named by the override of its id or
\* else "Campaign <first 8 characters>...", a placeholder by that same name
\* followed by " (erreur)"; no campaign_names and an empty one give the same
\* list
C27_NamesResolvedAlike ==
    (BatchDone /\ Returned) =>
        /\ \A i \in 1..Len(env.ids) :
             ret.stats[i].campaign_name =
                IF FetchSucceeds(i) THEN ExpectedName(i)
                ELSE ExpectedName(i) \o <<" ", "(", "e", "r", "r", "e", "u", "r", ")">>
        /\ (env.names.t = "null" \/ DOMAIN env.names.d = {}) =>
             ret.stats = get_campaigns_stats_by_ids(env.ids, NoNamesSwapped,
                                                    env.stats, json_legacy,
                                                    api_key).val

\* no campaign_names: a long id that fails and a short one that succeeds
C27_Witness ==
    /\ BatchDone
    /\ Returned
    /\ env.names = NoNames
    /\ env.ids = <<Str_long, Str_b>>
    /\ env.stats[Str_long] = RespHTTP
    /\ env.stats[Str_b] = RespOk(BodyEnvelope)
    /\ ret.stats[1].campaign_name =
          <<"C", "a", "m", "p", "a", "i", "g", "n", " ",
            "c", "a", "m", "p", "-", "0", "0", "0", ".", ".", ".",
            " ", "(", "e", "r", "r", "e", "u", "r", ")">>
    /\ ret.stats[2].campaign_name =
          <<"C", "a", "m", "p", "a", "i", "g", "n", " ", "b", ".", ".", ".">>

\* the number under a key of "relations", 0 when the key is absent
RelationsCount(body, key) ==
    IF Present(Engagement(body), <<"relations", key>>)
    THEN ValueAt(Engagement(body), <<"relations", key>>).n
    ELSE 0

\* C28: the parsed linkedin_accepted is relations.newRelations +
\* relations.alreadyConnected, each 0 when absent, whatever linkedin_sent is,
\* and linkedin_acceptance_rate is that sum over linkedin_sent: it is not
\* capped at 100
C28_AcceptedIsSumOfRelations ==
    (ParseDone /\ Answer.body \in RelationsBodies) =>
        /\ Returned
        /\ ret.stats[1].linkedin_accepted =
              JNum(RelationsCount(Answer.body, "newRelations")
                     + RelationsCount(Answer.body, "alreadyConnected"))
        /\ ret.stats[1].linkedin_sent =
              JNum(RelationsCount(Answer.body, "requestSent"))
        /\ LET rate == linkedin_acceptance_rate(ret.stats[1])
               sent == RelationsCount(Answer.body, "requestSent")
               accepted == RelationsCount(Answer.body, "newRelations")
                             + RelationsCount(Answer.body, "alreadyConnected")
           IN  /\ IsRate(rate)
               /\ sent # 0 => rate.val.h * sent = accepted * 10000

\* 5 requests sent, 5 new relations and 5 already connected: 200.0
C28_Witness ==
    /\ ParseDone
    /\ Answer.body = Enveloped(RelationsEngagement(JNum(5), JNum(5), JNum(5)))
    /\ ret.stats[1].linkedin_sent = JNum(5)
    /\ ret.stats[1].linkedin_accepted = JNum(10)
    /\ linkedin_acceptance_rate(ret.stats[1]) = Return(Float(20000))

----------------------------------------------------------------------------
(* The presentation layer's session                                        *)

\* the batch call a Fetch Statistics step makes for the current selection
FetchedBatch ==
    get_campaigns_stats_by_ids(env'.ids, env'.names, env'.stats, json_legacy,
                               api_key)

ListFetched(calls) == \E i \in DOMAIN calls : calls[i] = "get_all_campaigns"

Shown(text) == \E i \in DOMAIN message : message[i] = text

\* C30: a run of main() calls get_all_campaigns only when available_campaigns
\* is not in the session or Refresh is pressed; a load that raised stores the
\* empty list; and a run that finds the empty list stored, without Refresh,
\* makes no list call, keeps the empty list and reports no campaigns
C30_ListLoadedOnlyWhenUnsetOrRefresh ==
    [][op' = "main" =>
          /\ ListFetched(client_calls') =>
                (session.available_campaigns = Unset \/ env'.ui.refresh)
          /\ (\E i \in DOMAIN message' :
                  message'[i] = "Error loading campaigns") =>
                session'.available_campaigns = JArr(<<>>)
          /\ (session.available_campaigns = JArr(<<>>) /\ ~env'.ui.refresh) =>
                /\ ~ListFetched(client_calls')
                /\ \A i \in DOMAIN req_log' :
                       req_log'[i].endpoint # <<"campaigns">>
                /\ session'.available_campaigns = JArr(<<>>)
                /\ (env'.ui.has_key /\ ~env'.ui.demo_mode
                       /\ outcome'.kind = "return") =>
                      \E i \in DOMAIN message' :
                          message'[i] = "No campaigns found"]_vars

\* a run after a failed load, Refresh not pressed: no list call, the empty
\* list still stored and "No campaigns found" shown
C30_Witness ==
    /\ op = "main"
    /\ env.ui.has_key /\ ~env.ui.demo_mode /\ ~env.ui.refresh
    /\ "refresh" \in session.rendered
    /\ session.available_campaigns = JArr(<<>>)
    /\ ~ListFetched(client_calls)
    /\ Shown("No campaigns found")
    /\ ~Shown("Error loading campaigns")

====
